---- MODULE Spec2Model ----
(***************************************************************************)
(* Model of deftree/associate_comments.go: the comment scrubber            *)
(* (scrubComments), the descriptor path resolver (buildNamePath with       *)
(* getProtobufField and getCollectionIndex) and the association driver     *)
(* (AssociateComments).                                                    *)
(*                                                                         *)
(* Go strings that the code inspects byte by byte (comments) are           *)
(* sequences of one-character strings; names are atomic strings.           *)
(***************************************************************************)
EXTENDS Integers, Sequences, FiniteSets, TLC

VARIABLES comment, scrubbed, path, node, result, req, dt, trace, pc

vars == <<comment, scrubbed, path, node, result, req, dt, trace, pc>>

\* ---------------------------------------------------------------- bounds

MaxLen == 5
MaxApply == 2
MaxPathLen == 4
MaxLocs == 2

\* ---------------------------------------------------------------- text

\* The bytes comments are made of in the model: the two artifact characters,
\* two of the characters \s matches, and one ordinary letter.
Alphabet == {"/", "*", " ", "\n", "a"}

\* The class \s of Go's regexp (RE2) syntax: [\t\n\f\r ].
Whitespace == {" ", "\n", "\t", "\r", "\f"}

RECURSIVE StringsUpTo(_)
StringsUpTo(n) ==
  IF n = 0 THEN {<<>>}
  ELSE LET shorter == StringsUpTo(n - 1)
       IN shorter \cup {Append(s, c) : s \in {t \in shorter : Len(t) = n - 1}, c \in Alphabet}

HasPrefixAt(s, old, i) ==
  /\ i + Len(old) - 1 <= Len(s)
  /\ \A k \in 1..Len(old) : s[i + k - 1] = old[k]

\* strings.Replace(s, old, new, -1) for a non-empty old: the non-overlapping
\* occurrences of old, found left to right in one pass, become new.
RECURSIVE ReplaceFrom(_, _, _, _)
ReplaceFrom(s, old, new, i) ==
  IF i > Len(s) THEN <<>>
  ELSE IF HasPrefixAt(s, old, i) THEN new \o ReplaceFrom(s, old, new, i + Len(old))
  ELSE <<s[i]>> \o ReplaceFrom(s, old, new, i + 1)

Replace(s, old, new) == ReplaceFrom(s, old, new, 1)

\* The first index >= i of s whose character is not in set (Len(s)+1 if none).
RECURSIVE SkipRun(_, _, _)
SkipRun(s, set, i) ==
  IF i <= Len(s) /\ s[i] \in set THEN SkipRun(s, set, i + 1) ELSE i

\* regexp "^/*\s*" replaced by "": the pattern is anchored at the start of the
\* text, so it matches once: a run of slashes, then a run of whitespace.
beginning_slash(s) ==
  LET afterSlashes == SkipRun(s, {"/"}, 1)
      afterSpace == SkipRun(s, Whitespace, afterSlashes)
  IN SubSeq(s, afterSpace, Len(s))

\* regexp "\s*$" replaced by "": the leftmost match starts where the
\* whitespace run that reaches the end of the text starts.
RECURSIVE TrailStart(_, _)
TrailStart(s, i) ==
  IF i >= 1 /\ s[i] \in Whitespace THEN TrailStart(s, i - 1) ELSE i

trailing_whitespace(s) == SubSeq(s, 1, TrailStart(s, Len(s)))

\* The last index k with i < k < j and s[k] a newline, or 0.
RECURSIVE LastNewline(_, _, _)
LastNewline(s, i, k) ==
  IF k <= i THEN 0
  ELSE IF s[k] = "\n" THEN k
  ELSE LastNewline(s, i, k - 1)

\* regexp "\s+\n" replaced by "\n", every match, leftmost first: a match starts
\* at a whitespace character, \s+ is greedy, and backs off to the last newline
\* of the whitespace run it is in.
RECURSIVE LineTrailFrom(_, _)
LineTrailFrom(s, i) ==
  IF i > Len(s) THEN <<>>
  ELSE IF s[i] \in Whitespace
    THEN LET j == SkipRun(s, Whitespace, i)
             k == LastNewline(s, i, j - 1)
         IN IF k # 0 THEN <<"\n">> \o LineTrailFrom(s, k + 1)
            ELSE <<s[i]>> \o LineTrailFrom(s, i + 1)
  ELSE <<s[i]>> \o LineTrailFrom(s, i + 1)

line_trail_ws(s) == LineTrailFrom(s, 1)

scrubComments(c) ==
  LET c1 == Replace(c, <<"\n", "/", " ">>, <<"\n">>)
      c2 == Replace(c1, <<"\n", "/">>, <<"\n">>)
      c3 == beginning_slash(c2)
      c4 == trailing_whitespace(c3)
  IN line_trail_ws(c4)

\* ------------------------------------------------- declaration values

\* A reflect.Value: its Kind, the string it holds (Kind String), and its
\* children: the pointee of a non-nil pointer, the elements of a slice, the
\* fields of a struct (with their Go names and protobuf field numbers).
Value(k, s, ns, ts, ks) == [kind |-> k, str |-> s, names |-> ns, tags |-> ts, kids |-> ks]

Invalid == Value("Invalid", "", <<>>, <<>>, <<>>)    \* the zero reflect.Value
Str(s) == Value("String", s, <<>>, <<>>, <<>>)
Int32 == Value("Int32", "", <<>>, <<>>, <<>>)
NilPtr == Value("Ptr", "", <<>>, <<>>, <<>>)
Ptr(v) == Value("Ptr", "", <<>>, <<>>, <<v>>)
Slice(elems) == Value("Slice", "", <<>>, <<>>, elems)
Struct(ns, ts, ks) == Value("Struct", "", ns, ts, ks)

\* pfield_n of a struct field that carries no protobuf tag.
NoTag == -1

\* reflect.Value.Elem of a pointer: the pointee, the zero Value for nil.
Elem(v) == IF Len(v.kids) = 1 THEN v.kids[1] ELSE Invalid

\* reflect.Value.FieldByName: the zero Value when no field has the name.
FieldByName(v, name) ==
  IF \E i \in 1..Len(v.names) : v.names[i] = name
  THEN v.kids[CHOOSE i \in 1..Len(v.names) :
                 /\ v.names[i] = name
                 /\ \A j \in 1..(i - 1) : v.names[j] # name]
  ELSE Invalid

\* The outcome of a call: a value, an error value, or a panic that unwinds.
Ok(v) == [status |-> "ok", val |-> v]
Err == [status |-> "error", val |-> <<>>]
Panic == [status |-> "panic", val |-> <<>>]

\* getProtobufField: the first field of the struct whose tag number is
\* proto_field. proto_msg.Type() panics on the zero Value and NumField panics
\* on a type that is no struct.
RECURSIVE FindField(_, _, _)
FindField(proto_field, proto_msg, n) ==
  IF n > Len(proto_msg.tags) THEN Err
  ELSE IF proto_msg.tags[n] # -1 /\ proto_msg.tags[n] = proto_field
    THEN Ok(proto_msg.kids[n])
  ELSE FindField(proto_field, proto_msg, n + 1)

getProtobufField(proto_field, proto_msg) ==
  IF proto_msg.kind # "Struct" THEN Panic
  ELSE FindField(proto_field, proto_msg, 1)

\* getCollectionIndex: panics itself on index >= Len, and reflect's Index
\* panics on a negative index.
getCollectionIndex(nd, index) ==
  IF index >= Len(nd.kids) THEN Panic
  ELSE IF index < 0 THEN Panic
  ELSE Ok(nd.kids[index + 1])

\* *node.FieldByName("Name").Interface().(*string): Interface panics on the
\* zero Value, the assertion on another type, the dereference on nil.
StructName(nd) ==
  LET f == FieldByName(nd, "Name")
  IN IF f.kind = "Ptr" /\ Elem(f).kind = "String" THEN Ok(Elem(f).str) ELSE Panic

\* path[2:] mistaken for path[1:].
Tail2_DropsOne(p) == SubSeq(p, 2, Len(p))

Tail2(p) == SubSeq(p, 3, Len(p))

\* The switch on node.Kind() at the head of buildNamePath: the node the rest
\* of the call works on and st_name.
NameOf(nd) ==
  CASE nd.kind = "Invalid" -> Panic            \* node.Type() of the logging call
    [] nd.kind = "String" -> Ok([node |-> nd, st_name |-> nd.str])
    [] nd.kind = "Ptr" -> Ok([node |-> Elem(nd), st_name |-> ""])
    [] nd.kind = "Struct" ->
         IF StructName(nd).status = "ok"
         THEN Ok([node |-> nd, st_name |-> StructName(nd).val])
         ELSE Panic
    [] OTHER -> Err

\* The guard of the bounds check before getCollectionIndex.
IndexTooLarge(index, field) == index >= Len(field.kids)

Prepend(st_name, rv) ==
  IF rv.status = "ok" THEN Ok(<<st_name>> \o rv.val) ELSE rv

RECURSIVE buildNamePath(_, _)
buildNamePath(p, nd) ==
  LET head == NameOf(nd)
  IN IF head.status # "ok" THEN head
     ELSE IF Len(p) = 0 THEN Ok(<<head.val.st_name>>)
     ELSE LET found == getProtobufField(p[1], head.val.node)
          IN IF found.status # "ok" THEN found
             ELSE IF Len(p) = 1 THEN Err
             ELSE IF found.val.kind # "Slice"
               THEN Prepend(head.val.st_name, buildNamePath(Tail(p), found.val))
             ELSE IF IndexTooLarge(p[2], found.val) THEN Err
             ELSE LET next_node == getCollectionIndex(found.val, p[2])
                  IN IF next_node.status # "ok" THEN next_node
                     ELSE LET clean_next == IF next_node.val.kind = "Ptr"
                                              THEN Elem(next_node.val)
                                              ELSE next_node.val
                          IN Prepend(head.val.st_name, buildNamePath(Tail2(p), clean_next))

\* ------------------------------------------------- descriptor inputs

\* A field declaration: a record with a Name only.
FieldDecl(name) == Struct(<<"Name">>, <<1>>, <<Ptr(Str(name))>>)

\* An options record: reached through a pointer field, it holds a collection
\* of named entries; it has a Name of its own or none.
OptionsDecl(name, entries) ==
  IF name = "" THEN Struct(<<"Entry">>, <<2>>, <<Slice(entries)>>)
  ELSE Struct(<<"Name", "Entry">>, <<1, 2>>, <<Ptr(Str(name)), Slice(entries)>>)

\* A message declaration: Name (1), its fields (2), its options (3), a
\* collection of numbers (4), and one field without a protobuf tag.
MessageDecl(name, fields, options) ==
  Struct(<<"Name", "Field", "Options", "ReservedNumber", "XXX_unrecognized">>,
         <<1, 2, 3, 4, NoTag>>,
         <<name, Slice(fields), options, Slice(<<Int32>>), Slice(<<>>)>>)

\* A file declaration: Name (1), Package (2), Dependency (3, names),
\* MessageType (4), Options (5), PublicDependency (6, numbers).
FileDecl(name, messages, options) ==
  Struct(<<"Name", "Package", "Dependency", "MessageType", "Options",
           "PublicDependency", "XXX_unrecognized">>,
         <<1, 2, 3, 4, 5, 6, NoTag>>,
         <<name, Ptr(Str("pkg")), Slice(<<Str("dep.proto")>>), Slice(messages),
           options, Slice(<<Int32>>), Slice(<<>>)>>)

Widget == MessageDecl(Ptr(Str("Widget")), <<Ptr(FieldDecl("id"))>>,
                      Ptr(OptionsDecl("", <<Ptr(FieldDecl("deprecated"))>>)))
Gadget == MessageDecl(Ptr(Str("Gadget")), <<>>, NilPtr)
Nameless == MessageDecl(NilPtr, <<Ptr(FieldDecl("id"))>>, NilPtr)

MessageLists == {<<Ptr(Widget)>>, <<Ptr(Widget), NilPtr>>, <<Ptr(Nameless), Ptr(Gadget)>>}

FileOptions == {NilPtr,
                Ptr(OptionsDecl("opts", <<Ptr(FieldDecl("java"))>>)),
                Ptr(OptionsDecl("", <<Ptr(FieldDecl("java"))>>))}

FileNames == {Ptr(Str("a.proto")), NilPtr}

Roots == {FileDecl(n, m, o) : n \in FileNames, m \in MessageLists, o \in FileOptions}

\* The int32 values a path is made of in the model: the field numbers in use,
\* the indices in and out of range, and a negative number.
PathVals == {-1, 0, 1, 2, 3, 4, 5, 6}

RECURSIVE PathsUpTo(_)
PathsUpTo(n) ==
  IF n = 0 THEN {<<>>}
  ELSE LET shorter == PathsUpTo(n - 1)
       IN shorter \cup {Append(q, v) : q \in {t \in shorter : Len(t) = n - 1}, v \in PathVals}

\* ------------------------------------------------- scrubber specification

InitScrub ==
  /\ comment \in StringsUpTo(MaxLen)
  /\ scrubbed = <<>>
  /\ path = <<>>
  /\ node = Invalid
  /\ result = <<>>
  /\ req = <<>>
  /\ dt = <<>>
  /\ trace = <<>>
  /\ pc = "scrub"

\* One more application of scrubComments: to the raw comment first, then to
\* what the previous application returned.
ScrubStep ==
  /\ pc = "scrub"
  /\ Len(scrubbed) < MaxApply
  /\ scrubbed' = Append(scrubbed,
        scrubComments(IF scrubbed = <<>> THEN comment ELSE scrubbed[Len(scrubbed)]))
  /\ UNCHANGED <<comment, path, node, result, req, dt, trace, pc>>

NextScrub == ScrubStep

SpecScrub == InitScrub /\ [][NextScrub]_vars

\* ------------------------------------------------- resolver specification

InitPath ==
  /\ path \in PathsUpTo(MaxPathLen)
  /\ node \in Roots
  /\ result = <<>>
  /\ comment = <<>>
  /\ scrubbed = <<>>
  /\ req = <<>>
  /\ dt = <<>>
  /\ trace = <<>>
  /\ pc = "resolve"

\* One call buildNamePath(path, node) on a file declaration.
Resolve ==
  /\ pc = "resolve"
  /\ result' = buildNamePath(path, node)
  /\ pc' = "resolved"
  /\ UNCHANGED <<comment, scrubbed, path, node, req, dt, trace>>

NextPath == Resolve

SpecPath == InitPath /\ [][NextPath]_vars

\* ------------------------------------------------- the documentation tree

\* The Deftree behind SetDescription and SetComment: the text of the root and,
\* for every node it holds, reachable by its name path, that node's text.
NewTree(nodes) == [description |-> <<>>, comments |-> [np \in nodes |-> <<>>]]

SetDescription(tree, text) == [tree EXCEPT !.description = text]

\* SetComment fails with "cannot find node" when the tree has no such node.
SetComment(tree, name_path, text) ==
  IF name_path \in DOMAIN tree.comments
  THEN [found |-> TRUE, tree |-> [tree EXCEPT !.comments[name_path] = text]]
  ELSE [found |-> FALSE, tree |-> tree]

\* ------------------------------------------------- association driver

\* file.GetName(): the Name of the file declaration, "" when it is not set.
GetName(file) ==
  LET f == FieldByName(file.desc, "Name")
  IN IF f.kind = "Ptr" /\ Elem(f).kind = "String" THEN Elem(f).str ELSE ""

\* The loop over req.FileToGenerate that decides skip.
RECURSIVE SkipFrom(_, _, _)
SkipFrom(name, gens, i) ==
  IF i > Len(gens) THEN TRUE
  ELSE IF name = gens[i] THEN FALSE
  ELSE SkipFrom(name, gens, i + 1)

Skip(file, request) == SkipFrom(GetName(file), request.file_to_generate, 1)

\* The test with its bounds off by one: any non-empty comment passes.
HasComment_AnyLength(location) ==
  Len(location.lead) > 0 \/ Len(location.detached) > 0

\* The test that a location has a comment located with it.
HasComment(location) ==
  Len(location.lead) > 1 \/ Len(location.detached) > 1

\* What the pass has done so far: the tree, the calls made for the locations
\* (file f, location l), and whether a panic has unwound the pass.
Event(f, l, op, name_path, text, status) ==
  [f |-> f, l |-> l, op |-> op, name_path |-> name_path, text |-> text, status |-> status]

\* The loop body with the package-level test len(path) <= 1 in place of == 1.
ProcessLocation_ShortPaths(st, file, f, l) ==
  LET location == file.locs[l]
      lead == location.lead
  IN IF ~HasComment(location) THEN st
     ELSE IF Len(location.path) <= 1
       THEN [st EXCEPT !.tree = SetDescription(st.tree, scrubComments(lead)),
                       !.events = Append(st.events,
                          Event(f, l, "SetDescription", <<>>, scrubComments(lead), "ok"))]
     ELSE LET r == buildNamePath(location.path, file.desc)
              walked == Append(st.events,
                          Event(f, l, "buildNamePath", <<>>, <<>>, r.status))
          IN IF r.status = "panic"
               THEN [st EXCEPT !.events = walked, !.crashed = TRUE]
             ELSE IF r.status = "error"
               THEN [st EXCEPT !.events = walked]
             ELSE LET set == SetComment(st.tree, r.val, scrubComments(lead))
                  IN [st EXCEPT !.tree = set.tree,
                                !.events = Append(walked,
                                   Event(f, l, "SetComment", r.val, scrubComments(lead),
                                         IF set.found THEN "ok" ELSE "cannot find node"))]

\* The body of the loop over the locations of a file, for location l of file f.
ProcessLocation(st, file, f, l) ==
  LET location == file.locs[l]
      lead == location.lead
  IN IF ~HasComment(location) THEN st
     ELSE IF Len(location.path) = 1
       THEN [st EXCEPT !.tree = SetDescription(st.tree, scrubComments(lead)),
                       !.events = Append(st.events,
                          Event(f, l, "SetDescription", <<>>, scrubComments(lead), "ok"))]
     ELSE LET r == buildNamePath(location.path, file.desc)
              walked == Append(st.events,
                          Event(f, l, "buildNamePath", <<>>, <<>>, r.status))
          IN IF r.status = "panic"
               THEN [st EXCEPT !.events = walked, !.crashed = TRUE]
             ELSE IF r.status = "error"
               THEN [st EXCEPT !.events = walked]
             ELSE LET set == SetComment(st.tree, r.val, scrubComments(lead))
                  IN [st EXCEPT !.tree = set.tree,
                                !.events = Append(walked,
                                   Event(f, l, "SetComment", r.val, scrubComments(lead),
                                         IF set.found THEN "ok" ELSE "cannot find node"))]

\* The loop over the locations walking the list from its end.
RECURSIVE RunLocations_Backwards(_, _, _, _)
RunLocations_Backwards(st, file, f, l) ==
  IF st.crashed \/ l > Len(file.locs) THEN st
  ELSE RunLocations_Backwards(ProcessLocation(st, file, f, Len(file.locs) - l + 1),
                              file, f, l + 1)

\* for _, location := range info.GetLocation(): in list order, until a panic.
RECURSIVE RunLocations(_, _, _, _)
RunLocations(st, file, f, l) ==
  IF st.crashed \/ l > Len(file.locs) THEN st
  ELSE RunLocations(ProcessLocation(st, file, f, l), file, f, l + 1)

\* for _, file := range req.GetProtoFile(): in list order, until a panic.
RECURSIVE RunFiles(_, _, _)
RunFiles(st, request, f) ==
  IF st.crashed \/ f > Len(request.proto_file) THEN st
  ELSE IF Skip(request.proto_file[f], request) THEN RunFiles(st, request, f + 1)
  ELSE RunFiles(RunLocations(st, request.proto_file[f], f, 1), request, f + 1)

\* ------------------------------------------------- request inputs

\* Leading comments as protoc hands them over, and detached comment lists; a
\* location of the model has a leading comment or detached comments, not both.
Leads == {<<>>, <<"a">>, <<"/", " ", "a", "\n">>, <<" ", "b", " ", "\n", "b">>}
Detached == {<<>>, << <<" ", "d">>, <<" ", "d">> >>}

DriverPaths == {<<>>, <<2>>, <<4, 0>>, <<4, 0, 2, 0>>, <<4, 1>>}

Locations ==
  {[path |-> q, lead |-> cd[1], detached |-> cd[2]] :
     q \in DriverPaths,
     cd \in {x \in Leads \X Detached : (x[1] = <<>>) # (x[2] = <<>>)}}

FileA == FileDecl(Ptr(Str("a.proto")), <<Ptr(Widget), NilPtr>>, NilPtr)
FileB == FileDecl(Ptr(Str("b.proto")), <<Ptr(Gadget)>>, NilPtr)

GenerateLists == {<<"a.proto">>, <<"b.proto">>, <<"b.proto", "a.proto">>}

RECURSIVE LocationLists(_)
LocationLists(n) ==
  IF n = 0 THEN {<<>>}
  ELSE LET shorter == LocationLists(n - 1)
       IN shorter \cup {Append(ls, x) : ls \in {t \in shorter : Len(t) = n - 1},
                                        x \in Locations}

\* Two files, a.proto then b.proto: the first k locations of ls are those of
\* a.proto and the rest those of b.proto; g is FileToGenerate.
Request(ls, k, g) ==
  [proto_file |-> <<[desc |-> FileA, locs |-> SubSeq(ls, 1, k)],
                    [desc |-> FileB, locs |-> SubSeq(ls, k + 1, Len(ls))]>>,
   file_to_generate |-> g]

AllNodes == {<<"a.proto">>, <<"a.proto", "Widget">>, <<"a.proto", "Widget", "id">>,
             <<"b.proto">>, <<"b.proto", "Gadget">>}

Trees == {NewTree(AllNodes), NewTree(AllNodes \ {<<"a.proto", "Widget", "id">>})}

\* ------------------------------------------------- driver specification

Init ==
  /\ dt \in Trees
  /\ req = <<>>
  /\ trace = <<>>
  /\ pc = "idle"
  /\ comment = <<>>
  /\ scrubbed = <<>>
  /\ path = <<>>
  /\ node = Invalid
  /\ result = <<>>

\* One call AssociateComments(dt, req), the whole pass.
AssociateComments ==
  /\ pc = "idle"
  /\ \E ls \in LocationLists(MaxLocs), g \in GenerateLists :
     \E k \in 0..Len(ls) :
       LET request == Request(ls, k, g)
           final == RunFiles([tree |-> dt, events |-> <<>>, crashed |-> FALSE], request, 1)
       IN /\ req' = request
          /\ dt' = final.tree
          /\ trace' = final.events
          /\ pc' = IF final.crashed THEN "panic" ELSE "done"
  /\ UNCHANGED <<comment, scrubbed, path, node, result>>

Next == AssociateComments

Spec == Init /\ [][Next]_vars

\* ------------------------------------------------- vocabulary of the claims

\* The member of a record declared with a field number, if it has one.
HasMember(rec, number) ==
  rec.kind = "Struct" /\ \E i \in 1..Len(rec.tags) : rec.tags[i] = number /\ rec.tags[i] # NoTag

Member(rec, number) ==
  rec.kids[CHOOSE i \in 1..Len(rec.tags) : rec.tags[i] = number]

\* One pointer/optional layer removed, if there is one.
Unwrapped(v) == IF v.kind = "Ptr" /\ Len(v.kids) = 1 THEN v.kids[1] ELSE v

IsNil(v) == v.kind = "Invalid" \/ (v.kind = "Ptr" /\ v.kids = <<>>)

NameMember(rec) ==
  rec.kids[CHOOSE i \in 1..Len(rec.names) : rec.names[i] = "Name"]

\* A declaration that has a name: a scalar identifier, or a record whose Name
\* member is set.
HasName(v) ==
  \/ v.kind = "String"
  \/ /\ v.kind = "Struct"
     /\ \E i \in 1..Len(v.names) : v.names[i] = "Name"
     /\ NameMember(v).kind = "Ptr"
     /\ Len(NameMember(v).kids) = 1
     /\ NameMember(v).kids[1].kind = "String"

DeclName(v) == IF v.kind = "String" THEN v.str ELSE NameMember(v).kids[1].str

\* The path without its first (field number, index) pair.
AfterPair(p) == SubSeq(p, 3, Len(p))

ValidIndex(collection, index) == index \in 0..(Len(collection.kids) - 1)

\* The path is made only of (field number, collection index) pairs, each field
\* number that of a collection member of the current record and each index
\* within that collection.
RECURSIVE PairsOnly(_, _)
PairsOnly(p, rec) ==
  \/ p = <<>>
  \/ /\ Len(p) >= 2
     /\ HasMember(rec, p[1])
     /\ Member(rec, p[1]).kind = "Slice"
     /\ ValidIndex(Member(rec, p[1]), p[2])
     /\ PairsOnly(AfterPair(p), Unwrapped(Member(rec, p[1]).kids[p[2] + 1]))

\* The elements such a path indexes, in order.
RECURSIVE Indexed(_, _)
Indexed(p, rec) ==
  IF p = <<>> THEN <<>>
  ELSE LET element == Unwrapped(Member(rec, p[1]).kids[p[2] + 1])
       IN <<element>> \o Indexed(AfterPair(p), element)

\* The levels a descent along p from v visits: the value at each level as the
\* resolver receives it, with the path that remains there. The descent goes on
\* while the value is (a pointer to) a record with a member numbered p[1]:
\* into that member, or into the element p[2] of it when it is a collection.
RECURSIVE Levels(_, _)
Levels(p, v) ==
  LET rec == Unwrapped(v)
      here == <<[v |-> v, p |-> p]>>
  IN IF Len(p) < 2 \/ ~HasMember(rec, p[1]) THEN here
     ELSE LET m == Member(rec, p[1])
          IN IF m.kind # "Slice" THEN here \o Levels(Tail(p), m)
             ELSE IF ~ValidIndex(m, p[2]) THEN here
             ELSE here \o Levels(AfterPair(p), Unwrapped(m.kids[p[2] + 1]))

LastLevel(p, v) == Levels(p, v)[Len(Levels(p, v))]

\* Every record the descent enters directly, before its last level, has a name.
NamedAbove(p, v) ==
  \A i \in 1..(Len(Levels(p, v)) - 1) :
     Levels(p, v)[i].v.kind = "Struct" => HasName(Levels(p, v)[i].v)

\* The name of the declaration at a level: its own, or that of the declaration
\* behind the pointer; "" only when it has none.
LevelName(v) ==
  IF HasName(v) THEN DeclName(v)
  ELSE IF v.kind = "Ptr" /\ HasName(Unwrapped(v)) THEN DeclName(Unwrapped(v))
  ELSE ""

\* ------------------------------------------------- claims on scrubComments

\* C1: scrubComments is idempotent: scrubbing what scrubComments returned
\* returns it unchanged.
C1_Idempotent ==
  Len(scrubbed) >= 2 => scrubbed[2] = scrubbed[1]

\* C2: the result of scrubComments never begins with '/', '*' or a whitespace
\* character and never ends with a whitespace character.
C2_LeadingAndTrailingStripped ==
  (Len(scrubbed) >= 1 /\ scrubbed[1] # <<>>) =>
     /\ scrubbed[1][1] \notin ({"/", "*"} \cup Whitespace)
     /\ scrubbed[1][Len(scrubbed[1])] \notin Whitespace

\* ------------------------------------------------- claims on buildNamePath

C4_BadIndexIsAnError ==
  (/\ pc = "resolved"
   /\ NamedAbove(path, node)
   /\ LET last == LastLevel(path, node)
      IN /\ Len(last.p) >= 2
         /\ last.v.kind = "Struct"
         /\ HasName(last.v)
         /\ HasMember(last.v, last.p[1])
         /\ Member(last.v, last.p[1]).kind = "Slice"
         /\ ~ValidIndex(Member(last.v, last.p[1]), last.p[2]))
  => result.status = "error"

\* C9: when the descent arrives at a nil pointer, as a non-collection field or
\* as an element of a collection, buildNamePath returns an error and does not
\* panic.
C9_NilUnwrapIsAnError ==
  (/\ pc = "resolved"
   /\ NamedAbove(path, node)
   /\ IsNil(LastLevel(path, node).v))
  => result.status = "error"

Files == req.proto_file

IsWrite(e) == e.op \in {"SetDescription", "SetComment"}

EventsOf(f, l) == SelectSeq(trace, LAMBDA e : e.f = f /\ e.l = l)

\* The file is listed in FileToGenerate.
Generated(f) ==
  \E i \in 1..Len(req.file_to_generate) : req.file_to_generate[i] = GetName(Files[f])

\* The location carries a leading comment longer than one character or more
\* than one leading-detached comment.
CarriesComment(location) ==
  Len(location.lead) >= 2 \/ Len(location.detached) >= 2

\* (f, l) comes before (g, m) in the order of the request's lists.
Precedes(f, l, g, m) == f < g \/ (f = g /\ l < m)

\* The pass got to location l of file f: it ran to its end, or the panic that
\* ended it was raised at this location or at a later one.
Reached(f, l) ==
  \/ pc = "done"
  \/ /\ pc = "panic"
     /\ ~Precedes(trace[Len(trace)].f, trace[Len(trace)].l, f, l)

\* The locations the pass handles: those of the generated files it got to that
\* carry a comment.
Handled(f, l) ==
  /\ Reached(f, l)
  /\ Generated(f)
  /\ CarriesComment(Files[f].locs[l])

Places == {fl \in (1..2) \X (1..MaxLocs) :
             fl[1] <= Len(Files) /\ fl[2] <= Len(Files[fl[1]].locs)}

\* C5: the pass never aborts because of one bad location: it runs to its end,
\* and every well-formed location of a generated file is written to the tree.
C5_NeverAborts ==
  pc # "idle" =>
     /\ pc = "done"
     /\ \A fl \in Places :
          LET location == Files[fl[1]].locs[fl[2]]
          IN (/\ Generated(fl[1])
              /\ CarriesComment(location)
              /\ (Len(location.path) = 1
                    \/ buildNamePath(location.path, Files[fl[1]].desc).status = "ok"))
             => \E i \in 1..Len(trace) :
                   trace[i].f = fl[1] /\ trace[i].l = fl[2] /\ IsWrite(trace[i])

\* C6: for a handled location whose path has length 1 the pass calls
\* SetDescription with the scrubbed leading comment and neither buildNamePath
\* nor SetComment; for a handled location with any other path length it never
\* calls SetDescription.
C6_PackageLevelRouting ==
  pc # "idle" =>
    \A fl \in Places :
       LET location == Files[fl[1]].locs[fl[2]]
       IN Handled(fl[1], fl[2]) =>
            IF Len(location.path) = 1
            THEN EventsOf(fl[1], fl[2]) =
                   <<Event(fl[1], fl[2], "SetDescription", <<>>,
                           scrubComments(location.lead), "ok")>>
            ELSE \A i \in 1..Len(trace) :
                   (trace[i].f = fl[1] /\ trace[i].l = fl[2])
                      => trace[i].op # "SetDescription"

C6_Witness ==
  /\ pc = "done"
  /\ \E fl \in Places :
       /\ Handled(fl[1], fl[2])
       /\ Len(Files[fl[1]].locs[fl[2]].path) = 1
       /\ dt.description = scrubComments(Files[fl[1]].locs[fl[2]].lead)
       /\ dt.description # <<>>
  /\ \E fl \in Places :
       /\ Handled(fl[1], fl[2])
       /\ Len(Files[fl[1]].locs[fl[2]].path) # 1
       /\ \E i \in 1..Len(trace) :
            trace[i].f = fl[1] /\ trace[i].l = fl[2] /\ trace[i].op = "SetComment"

\* C7: every write to the tree comes from a location of a file listed in
\* FileToGenerate that carries a leading comment longer than one character or
\* more than one leading-detached comment; where there is no such location the
\* tree is left as it was.
C7_WritesOnlyFromEligible ==
  pc # "idle" =>
    /\ \A i \in 1..Len(trace) :
         /\ Generated(trace[i].f)
         /\ CarriesComment(Files[trace[i].f].locs[trace[i].l])
    /\ (\A fl \in Places :
          ~(Generated(fl[1]) /\ CarriesComment(Files[fl[1]].locs[fl[2]])))
       => dt = NewTree(DOMAIN dt.comments)

C7_Witness ==
  /\ pc = "done"
  /\ \E i \in 1..Len(trace) : IsWrite(trace[i])
  /\ \E fl \in Places :
       \/ ~Generated(fl[1]) /\ CarriesComment(Files[fl[1]].locs[fl[2]])
       \/ Generated(fl[1]) /\ ~CarriesComment(Files[fl[1]].locs[fl[2]])

\* The handled locations whose comment belongs at name_path (<<>>: at the
\* description of the root).
Targets(name_path) ==
  {fl \in Places :
     /\ Handled(fl[1], fl[2])
     /\ LET location == Files[fl[1]].locs[fl[2]]
        IN IF name_path = <<>> THEN Len(location.path) = 1
           ELSE /\ Len(location.path) # 1
                /\ buildNamePath(location.path, Files[fl[1]].desc) = Ok(name_path)}

Latest(places) ==
  CHOOSE fl \in places : \A other \in places :
     other = fl \/ Precedes(other[1], other[2], fl[1], fl[2])

StoredAt(name_path) ==
  IF name_path = <<>> THEN dt.description ELSE dt.comments[name_path]

\* C8: the pass makes its calls in the order of the location lists, one write
\* for every handled location it can place, and the text the tree holds for a
\* name path (or as the description) is the scrubbed leading comment of the
\* last location that belongs there.
C8_InOrderLastWriteWins ==
  pc # "idle" =>
    /\ \A i \in 1..Len(trace) : \A j \in (i + 1)..Len(trace) :
          ~Precedes(trace[j].f, trace[j].l, trace[i].f, trace[i].l)
    /\ \A name_path \in (DOMAIN dt.comments) \cup {<<>>} :
          /\ Cardinality(Targets(name_path)) =
               Cardinality({i \in 1..Len(trace) :
                              IsWrite(trace[i]) /\ trace[i].name_path = name_path})
          /\ Targets(name_path) # {} =>
               StoredAt(name_path) =
                 scrubComments(Files[Latest(Targets(name_path))[1]]
                                 .locs[Latest(Targets(name_path))[2]].lead)

C8_Witness ==
  /\ pc = "done"
  /\ \E name_path \in DOMAIN dt.comments :
       /\ Cardinality(Targets(name_path)) = 2
       /\ \E fl \in Targets(name_path) :
            scrubComments(Files[fl[1]].locs[fl[2]].lead) # StoredAt(name_path)
       /\ StoredAt(name_path) =
            scrubComments(Files[Latest(Targets(name_path))[1]]
                            .locs[Latest(Targets(name_path))[2]].lead)

====
